---------------------------- MODULE Spec2Model ----------------------------
(***************************************************************************)
(* The Unsplash photo-search service of Ghost-Admin                       *)
(* (app/services/unsplash.js): public operations, the ember-concurrency   *)
(* tasks behind them (a dropping task group for the load family, a        *)
(* restartable debounced search task), the fetch promise chain of         *)
(* _makeRequest, and the masonry column bookkeeping.                      *)
(*                                                                         *)
(* A fetch is not cancelable: cancelling the task instance that yielded   *)
(* the promise of _makeRequest leaves the promise chain running, so the   *)
(* model keeps every issued request in `reqs` until its chain settles,    *)
(* whatever happened to the task that issued it.                          *)
(***************************************************************************)
EXTENDS Integers, Sequences, FiniteSets, TLC

\* ------------------------------------------------------------------ bounds
\* requests that may be on the wire at once
MaxInFlight == 2
\* photos the flat list may hold (the server stops returning photos beyond it)
MaxPhotos == 1
\* photos the flat list may hold when the column layout is studied alone
MaxColumnPhotos == 4
\* the largest column count the layout asks for
MaxColumns == 4

\* ------------------------------------------------------- program constants
InitColumnCount == 3
FixedWidth == 300

\* column counts a caller passes to changeColumnCount
ColumnCounts == {2, InitColumnCount}

\* non-empty search terms typed by the user
Terms == {"a", "ab"}

\* ------------------------------------------------------------------- URLs
\* A URL is the pair of its fixed text and the search term spliced into it.
ListUrl == <<"/photos?per_page=30", "">>
SearchUrl(term) == <<"/search/photos?per_page=30&query=", term>>
TestUrl == <<"/photos/random", "">>
\* the value of this._lastRequestUrl before any request was made
Undefined == <<"undefined", "">>
\* an absent key of the _pagination object
Absent == <<"", "">>
\* follow-up URLs the server names in Link headers
PageUrls == {<<"/photos?page=2", "">>}

\* ---------------------------------------------------------- error strings
\* An error string is the pair of its fixed text and the status spliced into it.
NoError == <<"", 0>>
RateLimitMsg == <<"Unsplash API rate limit reached, please try again later.", 0>>
ConnectionMsg == <<"Uh-oh! Trouble reaching the Unsplash API, please check your connection", 0>>
StatusMsg(status) == <<"Error : Uh-oh! Trouble reaching the Unsplash API", status>>
\* the message of an error body (errors[0] of a JSON body, the text of an XML one)
BodyMsg == <<"OAuth error: The access token is invalid", 0>>

\* ------------------------------------------------------------- pagination
Rels == {"next", "prev"}
EmptyPagination == [r \in Rels |-> Absent]

\* An entry of a Link header after split(','): either it matches
\* <(.*)>; rel="(.*)" and yields url and rel, or it does not match.
LinkEntries ==
    [ok : {TRUE}, url : PageUrls, rel : Rels]
        \cup {[ok |-> FALSE, url |-> Absent, rel |-> ""]}
\* Link headers the server sends; <<>> is a response with no Link header
LinkHeaders ==
    {<<>>} \cup {<<e>> : e \in {x \in LinkEntries : x.rel # "prev"}}
        \cup {<<[ok |-> TRUE, url |-> u, rel |-> "prev"],
                [ok |-> TRUE, url |-> u, rel |-> "next"]>> : u \in PageUrls}

\* ----------------------------------------------------------------- photos
\* width and height of the photos the API returns
Shapes == {<<2, 1>>, <<1, 1>>}
\* A photo record as the API returns it for the request of `url`: `query` is
\* the search term the server answered ("" for the listing and its pages).
ApiPhoto(url, shape) == [query |-> url[2], width |-> shape[1], height |-> shape[2]]
\* width and height of the photos the column layout is studied with: 300 *
\* height / width of each is a whole number, so the sums of _columnHeights
\* are exact
ColumnShapes == Shapes \cup {<<1, 2>>, <<4, 3>>}

VARIABLES
    searchTerm,      \* this.searchTerm
    columnCount,     \* this.columnCount
    columns,         \* this.columns: sequence of sequences of photos
    columnHeights,   \* this._columnHeights
    photos,          \* this.photos
    pagination,      \* this._pagination
    error,           \* this.error
    lastRequestUrl,  \* this._lastRequestUrl
    loadingTask,     \* the running task of the _loadingTasks group, or "idle"
    search,          \* the live instance of the _search task
    reqs,            \* fetch promise chains that have not settled yet
    ev,              \* history: what the last step reported to its caller
    burst,           \* history: terms of the updateSearch calls of this window
    burstIssued      \* history: URLs of the search requests of this window

progVars == <<searchTerm, columnCount, columns, columnHeights, photos,
              pagination, error, lastRequestUrl, loadingTask, search, reqs>>
vars == <<searchTerm, columnCount, columns, columnHeights, photos,
          pagination, error, lastRequestUrl, loadingTask, search, reqs,
          ev, burst, burstIssued>>

Slots == 1..MaxInFlight

\* A request on the wire: its url, the task that yielded its promise
\* ("_loadingTasks" for a task of that group, "_search", or "test" for
\* sendTestRequest), whether that task instance was cancelled since, and how
\* far the promise chain is: "fetch" (no response yet), "json" (2xx, body
\* being read), "errbody" (non-2xx, body being read).
NoReq == [url |-> Absent, owner |-> "none", cancelled |-> FALSE, phase |-> "none"]
\* a request whose fetch() has just been called by task `owner`
NewReq(url, owner) ==
    [url |-> url, owner |-> owner, cancelled |-> FALSE, phase |-> "fetch"]

IdleSearch == [state |-> "idle", term |-> ""]

\* What the last step reported to the caller of operation op: "rejected"
\* (the operation returned a rejected promise), or "" (it returned nothing,
\* or a task instance, or a pending promise).
Event(op, ret) == ret

\* ---------------------------------------------------------------- columns
RECURSIVE SeqMin(_)
SeqMin(s) ==
    IF Len(s) = 1 THEN s[1]
    ELSE LET m == SeqMin(Tail(s)) IN IF s[1] <= m THEN s[1] ELSE m

\* mutant: the photo always goes to the first column
FirstIndex(s, v) == 1

\* Array.prototype.indexOf: the first index holding v
IndexOf(s, v) == CHOOSE i \in 1..Len(s) : s[i] = v /\ \A j \in 1..(i - 1) : s[j] # v

\* photo.ratio = photo.height / photo.width, kept as the fraction
WithRatio(photo) ==
    [query |-> photo.query, width |-> photo.width, height |-> photo.height,
     ratio |-> <<photo.height, photo.width>>]

\* mutant: the ratio of the photo is left out of its height
ContributionFlat(photo) == FixedWidth

\* 300 * photo.ratio
Contribution(photo) == (FixedWidth * photo.ratio[1]) \div photo.ratio[2]

\* _addPhotoToColumns on the pair (columns, _columnHeights)
AddPhotoToColumns(layout, photo) ==
    LET min == SeqMin(layout.heights)
        columnIndex == IndexOf(layout.heights, min)
    IN [heights |-> [layout.heights EXCEPT ![columnIndex] = @ + Contribution(photo)],
        columns |-> [layout.columns EXCEPT ![columnIndex] = Append(@, photo)]]

RECURSIVE AddAllToColumns(_, _)
AddAllToColumns(layout, ps) ==
    IF ps = <<>> THEN layout
    ELSE AddAllToColumns(AddPhotoToColumns(layout, Head(ps)), Tail(ps))

\* mutant: the fresh columns are left empty
ResetColumnsEmpty(ps, n) ==
    [heights |-> [i \in 1..n |-> 0], columns |-> [i \in 1..n |-> <<>>]]

\* _resetColumns: fresh columns for count n, then every photo of the list again
ResetColumns(ps, n) ==
    AddAllToColumns([heights |-> [i \in 1..n |-> 0],
                     columns |-> [i \in 1..n |-> <<>>]], ps)

\* _addPhoto for each photo of a response, on (photos, columns, heights)
RECURSIVE AddPhotos(_, _)
AddPhotos(st, body) ==
    IF body = <<>> THEN st
    ELSE LET photo == WithRatio(Head(body))
             layout == AddPhotoToColumns([heights |-> st.heights, columns |-> st.columns], photo)
         IN AddPhotos([photos |-> Append(st.photos, photo),
                       heights |-> layout.heights,
                       columns |-> layout.columns], Tail(body))


\* ------------------------------------------------------- request plumbing
FreeSlots(rq) == {i \in Slots : rq[i] = NoReq}

\* fetch(url, {headers}): the request goes on the wire in the lowest free slot
Issue(rq, url, owner) ==
    LET i == CHOOSE k \in FreeSlots(rq) : \A j \in FreeSlots(rq) : k <= j
    IN [rq EXCEPT ![i] = NewReq(url, owner)]

\* mutant: the url is not stored for the retry
MakeRequestForgets(rq, url, owner) ==
    /\ FreeSlots(rq) # {}
    /\ error' = NoError
    /\ lastRequestUrl' = lastRequestUrl
    /\ reqs' = Issue(rq, url, owner)

\* _makeRequest up to the fetch() call
MakeRequest(rq, url, owner) ==
    /\ FreeSlots(rq) # {}
    /\ error' = NoError
    /\ lastRequestUrl' = url
    /\ reqs' = Issue(rq, url, owner)

\* _reset
Reset ==
    /\ photos' = <<>>
    /\ pagination' = EmptyPagination
    /\ columns' = ResetColumns(<<>>, columnCount).columns
    /\ columnHeights' = ResetColumns(<<>>, columnCount).heights

\* mutant: the group admits every perform (no .drop())
GroupAdmitsAlways(running) == TRUE

\* taskGroup().drop(): a perform is admitted only while the group is idle
GroupAdmits(running) == running = "idle"

\* perform() of a task of the _loadingTasks group, called by operation op
PerformLoad(task, url, rq, op) ==
    IF GroupAdmits(loadingTask)
    THEN /\ MakeRequest(rq, url, "_loadingTasks")
         /\ loadingTask' = task
         /\ ev' = Event(op, "")
    ELSE /\ reqs' = rq
         /\ ev' = Event(op, "")
         /\ UNCHANGED <<error, lastRequestUrl, loadingTask>>

\* _search.isRunning
SearchIsRunning == search.state # "idle"

\* isLoading: or('_search.isRunning', '_loadingTasks.isRunning')
IsLoading == SearchIsRunning \/ loadingTask # "idle"

\* mutant: .drop() in place of .restartable(): a perform made while an
\* instance is running is dropped
RestartableAsDrop(live, term) ==
    IF live.state = "idle" THEN [state |-> "waiting", term |-> term] ELSE live

\* task(...).restartable(): the new perform replaces the live instance
Restartable(live, term) == [state |-> "waiting", term |-> term]

\* Cancelling the live _search instance: a pending timeout() is dropped with
\* it (the state moves on), a fetch already made stays on the wire.
CancelSearch(rq) ==
    [i \in Slots |-> IF rq[i].owner = "_search" /\ ~rq[i].cancelled
                      THEN [rq[i] EXCEPT !.cancelled = TRUE] ELSE rq[i]]

\* the url built by the _search task from its argument
SearchTaskUrl(term) == SearchUrl(term)

\* ------------------------------------------------------ public operations
Init ==
    /\ searchTerm = ""
    /\ columnCount = InitColumnCount
    /\ columns = ResetColumns(<<>>, InitColumnCount).columns
    /\ columnHeights = ResetColumns(<<>>, InitColumnCount).heights
    /\ photos = <<>>
    /\ pagination = EmptyPagination
    /\ error = NoError
    /\ lastRequestUrl = Undefined
    /\ loadingTask = "idle"
    /\ search = IdleSearch
    /\ reqs = [i \in Slots |-> NoReq]
    /\ ev = Event("init", "")
    /\ burst = <<>>
    /\ burstIssued = <<>>

\* loadNew()
LoadNew ==
    /\ Reset
    /\ PerformLoad("_loadNew", ListUrl, reqs, "loadNew")
    /\ UNCHANGED <<searchTerm, columnCount, search, burst, burstIssued>>

\* mutant: no protection against the scroll trigger
ScrollGuardOff == FALSE

\* loadNextPage: the guard against the scroll trigger firing during a search
ScrollGuard == SearchIsRunning

\* mutant: the empty list is not told from a loaded one
NeverEmpty == FALSE

\* loadNextPage: isEmpty(this.get('photos'))
PhotosEmpty == photos = <<>>

\* mutant: nothing is returned when there is no next page
ReturnNothing == ""

\* loadNextPage: `return reject()` when there is no next page
Exhausted == "rejected"

\* loadNextPage()
LoadNextPage ==
    IF ScrollGuard
    THEN /\ ev' = Event("loadNextPage", "")
         /\ UNCHANGED <<progVars, burst, burstIssued>>
    ELSE IF PhotosEmpty
    THEN /\ PerformLoad("_loadNew", ListUrl, reqs, "loadNextPage")
         /\ UNCHANGED <<searchTerm, columnCount, columns, columnHeights, photos,
                        pagination, search, burst, burstIssued>>
    ELSE IF pagination["next"] # Absent
    THEN /\ PerformLoad("_loadNextPage", pagination["next"], reqs, "loadNextPage")
         /\ UNCHANGED <<searchTerm, columnCount, columns, columnHeights, photos,
                        pagination, search, burst, burstIssued>>
    ELSE /\ ev' = Event("loadNextPage", Exhausted)
         /\ UNCHANGED <<progVars, burst, burstIssued>>

\* changeColumnCount(newColumnCount)
ChangeColumnCount(newColumnCount) ==
    /\ IF newColumnCount # columnCount
       THEN /\ columnCount' = newColumnCount
            /\ columns' = ResetColumns(photos, newColumnCount).columns
            /\ columnHeights' = ResetColumns(photos, newColumnCount).heights
       ELSE UNCHANGED <<columnCount, columns, columnHeights>>
    /\ ev' = Event("changeColumnCount", "")
    /\ UNCHANGED <<searchTerm, photos, pagination, error, lastRequestUrl,
                   loadingTask, search, reqs, burst, burstIssued>>

\* sendTestRequest(testApplicationId): fetch, then _checkStatus on the response
SendTestRequest ==
    /\ FreeSlots(reqs) # {}
    /\ reqs' = Issue(reqs, TestUrl, "test")
    /\ ev' = Event("sendTestRequest", "")
    /\ UNCHANGED <<searchTerm, columnCount, columns, columnHeights, photos, pagination,
                   error, lastRequestUrl, loadingTask, search, burst, burstIssued>>

\* history: the calls of the current debounce window. A call that arrives
\* while the previous call's timeout is pending extends the window, any
\* other call opens a new one. <<>> once the window holds an empty term or
\* the same term twice.
NextBurst(term) ==
    IF search.state # "waiting" THEN <<term>>
    ELSE IF burst = <<>> \/ \E k \in 1..Len(burst) : burst[k] = term THEN <<>>
    ELSE Append(burst, term)

\* mutant: no guard against the term typed being the current one
NeverSameTerm(term) == FALSE

\* updateSearch: term === this.get('searchTerm')
SameTerm(term) == term = searchTerm

\* actions.updateSearch(term)
UpdateSearch(term) ==
    IF SameTerm(term)
    THEN /\ ev' = Event("updateSearch", "")
         /\ UNCHANGED <<progVars, burst, burstIssued>>
    ELSE /\ searchTerm' = term
         /\ Reset
         /\ UNCHANGED columnCount
         /\ IF term # ""
            THEN /\ search' = Restartable(search, term)
                 /\ reqs' = CancelSearch(reqs)
                 /\ ev' = Event("updateSearch", "")
                 /\ burst' = NextBurst(term)
                 /\ burstIssued' = IF search.state = "waiting" THEN burstIssued ELSE <<>>
                 /\ UNCHANGED <<error, lastRequestUrl, loadingTask>>
            ELSE /\ PerformLoad("_loadNew", ListUrl, reqs, "updateSearch")
                 /\ burst' = <<>>
                 /\ UNCHANGED burstIssued
                 /\ UNCHANGED search

\* _retryLastRequest.perform()
RetryLastRequest ==
    /\ PerformLoad("_retryLastRequest", lastRequestUrl, reqs, "retry")
    /\ UNCHANGED <<searchTerm, columnCount, columns, columnHeights, photos,
                   pagination, search, burst, burstIssued>>

\* _search after `yield timeout(DEBOUNCE_MS)`: the quiet period has elapsed
Timeout ==
    /\ search.state = "waiting"
    /\ MakeRequest(reqs, SearchTaskUrl(search.term), "_search")
    /\ search' = [state |-> "requesting", term |-> search.term]
    /\ ev' = Event("timeout", "")
    /\ burstIssued' = Append(burstIssued, SearchTaskUrl(search.term))
    /\ UNCHANGED <<searchTerm, columnCount, columns, columnHeights, photos,
                   pagination, loadingTask, burst>>

\* ------------------------------------------------------ what the server sends
Statuses == {200, 403, 500}
ContentTypes == {"application/json", "text/xml", "text/html"}
\* values of the x-ratelimit-remaining header
RateRemaining == {"0", "1"}

\* Bodies of a 2xx response: text that is no JSON, a JSON object without a
\* results field, a JSON array of photos, an object holding one in `results`.
PhotoLists == {<<>>, <<<<1, 1>>>>, <<<<2, 1>>, <<1, 1>>>>}
OkBodies ==
    {[kind |-> "invalid", shapes |-> <<>>], [kind |-> "object", shapes |-> <<>>]}
        \cup [kind : {"array", "results"}, shapes : PhotoLists]

\* Bodies of a non-2xx response, by content type: JSON that does not parse,
\* JSON without an errors list, JSON whose errors[0] is `text` (NoError: an
\* empty list or an empty message); for XML the raw text.
ErrBodies(ctype) ==
    IF ctype = "application/json"
    THEN {[kind |-> "invalid", text |-> NoError], [kind |-> "noerrors", text |-> NoError]}
             \cup [kind : {"errors"}, text : {BodyMsg, NoError}]
    ELSE [kind : {"text"}, text : {BodyMsg, NoError}]

\* Status line and headers of a response. The code reads the Link header of
\* a 2xx response only, and content type and rate-limit header of a non-2xx
\* response only, so the other headers take one value.
Heads ==
    {h \in [status : Statuses, ctype : ContentTypes, rl : RateRemaining, link : LinkHeaders] :
        IF h.status = 200 THEN h.ctype = "application/json" /\ h.rl = "1"
        ELSE h.link = <<>>}

\* The responses of a server that sends no error body and names no previous
\* page: 2xx with a Link header of at most one entry, or 500 as text/html.
PlainHeads ==
    {h \in Heads : /\ Len(h.link) <= 1
                   /\ h.status # 200 => h.status = 500 /\ h.ctype = "text/html" /\ h.rl = "1"}

AllErrBodies == ErrBodies("application/json") \cup ErrBodies("text/xml")

\* --------------------------------------------------------- the promise chain
\* _checkStatus: the test for a successful request
CheckStatusOk(status) == status >= 200 /\ status < 300

\* _checkStatus: content types whose body is read for the message
ReadsBody(ctype) == ctype = "application/json" \/ ctype = "text/xml"

\* _checkStatus: responseTextPromise for a body; ok is FALSE when it rejects
\* (response.json() fails, or json.errors[0] throws a TypeError)
ResponseText(body) ==
    IF body.kind = "invalid" \/ body.kind = "noerrors"
    THEN [ok |-> FALSE, text |-> NoError]
    ELSE [ok |-> TRUE, text |-> body.text]

\* _checkStatus: errorText from status, rate-limit header and response text
ErrorText(status, rl, responseText) ==
    LET errorText == IF status = 403 /\ rl = "0" THEN RateLimitMsg ELSE NoError
    IN IF errorText # NoError THEN errorText
       ELSE IF responseText # NoError THEN responseText
       ELSE StatusMsg(status)

\* _extractPagination: the mapping built from the Link header; ok is FALSE
\* when linkRegex.exec returns null and destructuring it throws
RECURSIVE ParseLink(_, _)
ParseLink(link, pag) ==
    IF link = <<>> THEN [ok |-> TRUE, pagination |-> pag]
    ELSE IF ~Head(link).ok THEN [ok |-> FALSE, pagination |-> pag]
    ELSE ParseLink(Tail(link), [pag EXCEPT ![Head(link).rel] = Head(link).url])

\* mutant: the entries are added to the mapping of the previous response
ExtractPaginationMerges(link) == ParseLink(link, pagination)

\* _extractPagination: `let pagination = {}`, filled from the header
ExtractPagination(link) == ParseLink(link, EmptyPagination)

\* _addPhotosFromResponse: response.results || response, then forEach;
\* ok is FALSE when the value has no forEach
PhotosOfBody(body) ==
    IF body.kind = "array" \/ body.kind = "results"
    THEN [ok |-> TRUE, shapes |-> body.shapes]
    ELSE [ok |-> FALSE, shapes |-> <<>>]

\* mutant: no .catch, the rejection reaches the task and its caller
CatchRethrows(ok, err) == [outcome |-> IF ok THEN "" ELSE "thrown", error |-> err]

\* The .catch of _makeRequest on a chain that ended fulfilled (ok) or
\* rejected, with this.error = err at that moment. Either way the promise
\* is fulfilled with undefined: outcome "" for the plain success,
\* "swallowed" for the caught rejection.
Catch(ok, err) ==
    IF ok THEN [outcome |-> "", error |-> err]
    ELSE [outcome |-> "swallowed",
          error |-> IF err = NoError THEN ConnectionMsg ELSE err]

\* The promise of sendTestRequest: no catch, the rejection reaches the caller.
NoCatch(ok, err) ==
    [outcome |-> IF ok THEN "" ELSE "thrown", error |-> err]

\* mutant: the task instance finishes only when the chain ended well
SettleStuckOnFailure(i, ok, err) ==
    LET r == reqs[i]
        end == IF r.owner = "test" THEN NoCatch(ok, err) ELSE Catch(ok, err)
        live == ~r.cancelled /\ ok
    IN /\ reqs' = [reqs EXCEPT ![i] = NoReq]
       /\ error' = end.error
       /\ ev' = end.outcome
       /\ loadingTask' = IF r.owner = "_loadingTasks" /\ live THEN "idle" ELSE loadingTask
       /\ search' = IF r.owner = "_search" /\ live THEN IdleSearch ELSE search
       /\ IF r.owner = "_search" /\ live
          THEN burst' = <<>> /\ burstIssued' = <<>>
          ELSE UNCHANGED <<burst, burstIssued>>

\* The chain of request i settles; err is this.error at the end of the chain.
\* The task instance that yielded the promise, unless cancelled, finishes.
Settle(i, ok, err) ==
    LET r == reqs[i]
        end == IF r.owner = "test" THEN NoCatch(ok, err) ELSE Catch(ok, err)
        live == ~r.cancelled
    IN /\ reqs' = [reqs EXCEPT ![i] = NoReq]
       /\ error' = end.error
       /\ ev' = end.outcome
       /\ loadingTask' = IF r.owner = "_loadingTasks" /\ live THEN "idle" ELSE loadingTask
       /\ search' = IF r.owner = "_search" /\ live THEN IdleSearch ELSE search
       /\ IF r.owner = "_search" /\ live
          THEN burst' = <<>> /\ burstIssued' = <<>>
          ELSE UNCHANGED <<burst, burstIssued>>

\* fetch() rejects: no response at all
FetchFail(i) ==
    /\ reqs[i].phase = "fetch"
    /\ Settle(i, FALSE, error)
    /\ UNCHANGED <<searchTerm, columnCount, columns, columnHeights, photos,
                   pagination, lastRequestUrl>>

\* Status line and headers of the response to request i arrive.
RespHead(i, status, ctype, rl, link) ==
    /\ reqs[i].phase = "fetch"
    /\ UNCHANGED <<searchTerm, columnCount, columns, columnHeights, photos, lastRequestUrl>>
    /\ IF CheckStatusOk(status)
       THEN IF reqs[i].owner = "test"
            THEN Settle(i, TRUE, error) /\ UNCHANGED pagination
            ELSE IF ExtractPagination(link).ok
            THEN \* response.json() starts reading the body
                 /\ pagination' = ExtractPagination(link).pagination
                 /\ reqs' = [reqs EXCEPT ![i].phase = "json"]
                 /\ ev' = Event("head", "")
                 /\ UNCHANGED <<error, loadingTask, search, burst, burstIssued>>
            ELSE Settle(i, FALSE, error) /\ UNCHANGED pagination
       ELSE IF ReadsBody(ctype)
            THEN \* response.json() or response.text() starts reading the body
                 /\ reqs' = [reqs EXCEPT ![i].phase = "errbody"]
                 /\ ev' = Event("head", "")
                 /\ UNCHANGED <<pagination, error, loadingTask, search, burst, burstIssued>>
            ELSE Settle(i, FALSE, ErrorText(status, rl, NoError)) /\ UNCHANGED pagination

\* The body of a 2xx response to request i has been read.
RespBody(i, body) ==
    /\ reqs[i].phase = "json"
    /\ Len(photos) + Len(body.shapes) <= MaxPhotos
    /\ UNCHANGED <<searchTerm, columnCount, pagination, lastRequestUrl>>
    /\ IF PhotosOfBody(body).ok
       THEN LET added == AddPhotos([photos |-> photos, heights |-> columnHeights,
                                    columns |-> columns],
                                   [k \in 1..Len(body.shapes) |->
                                       ApiPhoto(reqs[i].url, body.shapes[k])])
            IN /\ photos' = added.photos
               /\ columns' = added.columns
               /\ columnHeights' = added.heights
               /\ Settle(i, TRUE, error)
       ELSE /\ Settle(i, FALSE, error)
            /\ UNCHANGED <<photos, columns, columnHeights>>

\* The body of a non-2xx response to request i has been read. Status and
\* headers came with RespHead; nothing reads them before this step, so they
\* are drawn here.
RespErrBody(i, status, ctype, rl, body) ==
    /\ reqs[i].phase = "errbody"
    /\ ~CheckStatusOk(status)
    /\ ReadsBody(ctype)
    /\ body \in ErrBodies(ctype)
    /\ UNCHANGED <<searchTerm, columnCount, columns, columnHeights, photos,
                   pagination, lastRequestUrl>>
    /\ IF ResponseText(body).ok
       THEN Settle(i, FALSE, ErrorText(status, rl, ResponseText(body).text))
       ELSE Settle(i, FALSE, error)

\* the chain of request i moves on with something the server sent
Respond(i) ==
    \/ \E h \in Heads : RespHead(i, h.status, h.ctype, h.rl, h.link)
    \/ \E body \in OkBodies : RespBody(i, body)
    \/ \E status \in Statuses, ctype \in ContentTypes, rl \in RateRemaining,
          body \in AllErrBodies : RespErrBody(i, status, ctype, rl, body)

\* every way the chain of request i moves on
Deliver(i) == FetchFail(i) \/ Respond(i)

\* The photo selector at work: the user searches, scrolls and retries, the
\* server answers with photos or plain failures.
Next ==
    \/ LoadNew
    \/ LoadNextPage
    \/ \E term \in Terms \cup {""} : UpdateSearch(term)
    \/ RetryLastRequest
    \/ Timeout
    \/ \E i \in Slots, h \in PlainHeads : RespHead(i, h.status, h.ctype, h.rl, h.link)
    \/ \E i \in Slots, body \in OkBodies : RespBody(i, body)
    \/ \E i \in Slots : FetchFail(i)

Spec == Init /\ [][Next]_vars

\* bodies of the 2xx responses of the study of task termination: text that
\* is no JSON, and the arrays of photos
ArrayBodies == {b \in OkBodies : b.kind \in {"invalid", "array"}}

\* the chain of request i moves on with one of the plain responses, or fails
DeliverPlain(i) ==
    \/ \E h \in PlainHeads : RespHead(i, h.status, h.ctype, h.rl, h.link)
    \/ \E body \in ArrayBodies : RespBody(i, body)
    \/ FetchFail(i)

\* One search term typed and cleared, the list scrolled and reloaded, a
\* failed request retried; every request is answered or fails.
NextLive ==
    \/ LoadNew
    \/ LoadNextPage
    \/ \E term \in {"a", ""} : UpdateSearch(term)
    \/ RetryLastRequest
    \/ Timeout
    \/ \E i \in Slots : DeliverPlain(i)

\* The event loop runs what is due: the debounce timer fires once its
\* 600 ms have passed, and every fetch is answered or fails, after which
\* the callbacks of its chain run.
Fairness ==
    /\ WF_vars(Timeout)
    /\ \A i \in Slots : WF_vars(DeliverPlain(i))

SpecLive == Init /\ [][NextLive]_vars /\ Fairness

\* The default listing with every response the API can give, the settings
\* screen testing a credential, and the layout changing its column count.
NextApi ==
    \/ LoadNew
    \/ LoadNextPage
    \/ \E n \in ColumnCounts : ChangeColumnCount(n)
    \/ SendTestRequest
    \/ RetryLastRequest
    \/ \E i \in Slots, h \in Heads : RespHead(i, h.status, h.ctype, h.rl, h.link)
    \/ \E i \in Slots, body \in OkBodies : RespBody(i, body)
    \/ \E i \in Slots, status \in Statuses, ctype \in ContentTypes,
          rl \in RateRemaining, body \in AllErrBodies :
          RespErrBody(i, status, ctype, rl, body)
    \/ \E i \in Slots : FetchFail(i)

SpecApi == Init /\ [][NextApi]_vars

\* ------------------------------------------------------- the column layout
\* _addPhoto(photo) for one photo of the default listing
AddPhoto(shape) ==
    /\ Len(photos) < MaxColumnPhotos
    /\ LET added == AddPhotos([photos |-> photos, heights |-> columnHeights,
                               columns |-> columns], <<ApiPhoto(ListUrl, shape)>>)
       IN /\ photos' = added.photos
          /\ columns' = added.columns
          /\ columnHeights' = added.heights
    /\ ev' = Event("_addPhoto", "")
    /\ UNCHANGED <<searchTerm, columnCount, pagination, error, lastRequestUrl,
                   loadingTask, search, reqs, burst, burstIssued>>

\* _reset() on its own
ResetAll ==
    /\ Reset
    /\ ev' = Event("_reset", "")
    /\ UNCHANGED <<searchTerm, columnCount, error, lastRequestUrl,
                   loadingTask, search, reqs, burst, burstIssued>>

\* The masonry layout alone: photos arrive one by one, the layout changes
\* its column count, the list is reset.
NextColumns ==
    \/ \E shape \in ColumnShapes : AddPhoto(shape)
    \/ \E n \in 1..MaxColumns : ChangeColumnCount(n)
    \/ ResetAll

SpecColumns == Init /\ [][NextColumns]_vars

\* ===================================================================== claims
LoadRequests == {i \in Slots : reqs[i].owner = "_loadingTasks"}
LiveSearchRequests == {i \in Slots : reqs[i].owner = "_search" /\ ~reqs[i].cancelled}
LastTerm == burst[Len(burst)]

\* C1: updateSearch calls with pairwise different non-empty terms, each made
\* while the timeout of the previous one is pending (the window `burst`),
\* issue no search request while the last timeout is pending and exactly
\* one, for the last term, once it has elapsed.
C1_OneSearchPerWindow ==
    burst # <<>> =>
        /\ search.state # "idle"
        /\ search.state = "waiting" =>
              burstIssued = <<>> /\ LiveSearchRequests = {}
        /\ search.state = "requesting" =>
              /\ burstIssued = <<SearchUrl(LastTerm)>>
              /\ Cardinality(LiveSearchRequests) = 1
              /\ \A i \in LiveSearchRequests : reqs[i].url = SearchUrl(LastTerm)

C1_Witness ==
    /\ burst = <<"a", "ab">>
    /\ search.state = "requesting"
    /\ burstIssued = <<SearchUrl("ab")>>

\* C2: the response to a search request whose task instance was cancelled by
\* a later updateSearch changes none of photo list, column set, pagination
\* state and error string.
C2_SupersededResponseDiscarded ==
    [][\A i \in Slots :
          (reqs[i].owner = "_search" /\ reqs[i].cancelled /\ Respond(i))
              => UNCHANGED <<photos, columns, pagination, error>>]_vars

\* the operations that perform a task of the _loadingTasks group
LoadOperation == LoadNew \/ LoadNextPage \/ RetryLastRequest \/ UpdateSearch("")

\* C3: at most one request of the load family is on the wire, and a
\* load-family operation invoked while one is on the wire issues no request.
C3_LoadFamilyExclusive ==
    /\ [](Cardinality(LoadRequests) <= 1)
    /\ [][(LoadRequests # {} /\ LoadOperation) => reqs' = reqs]_vars

C3_Witness ==
    /\ Cardinality(LoadRequests) = 1
    /\ loadingTask = "_loadNextPage"
    /\ ENABLED (RetryLastRequest /\ reqs' = reqs)

\* C4: a load-family request and a search request are never on the wire
\* together.
C4_LoadAndSearchExclusive == ~(LoadRequests # {} /\ LiveSearchRequests # {})

\* C5: sendTestRequest and the handling of its response leave photo list,
\* column set, pagination state, search term, last-request URL and error
\* string as they were.
C5_TestRequestFrame ==
    [][(SendTestRequest \/ \E i \in Slots : reqs[i].owner = "test" /\ Deliver(i))
          => UNCHANGED <<photos, columns, pagination, searchTerm, lastRequestUrl, error>>]_vars

\* C6: when the chain of a data request ends on a response with status 403
\* and x-ratelimit-remaining "0", the error string is the rate-limit
\* message, whatever the content type and the body.
C6_RateLimitWhateverBody ==
    [][\A i \in Slots :
          (/\ reqs[i].owner # "test"
           /\ \/ \E ctype \in ContentTypes :
                    RespHead(i, 403, ctype, "0", <<>>) /\ reqs'[i] = NoReq
              \/ \E ctype \in ContentTypes, body \in AllErrBodies :
                    RespErrBody(i, 403, ctype, "0", body))
              => error' = RateLimitMsg]_vars

\* loadNew and loadNextPage have the same steps from the current state
SameAsLoadNew ==
    /\ ~ ENABLED (LoadNextPage /\ ~LoadNew)
    /\ ~ ENABLED (LoadNew /\ ~LoadNextPage)

\* C7 as claimed: from every state with an empty photo list, loadNextPage
\* does exactly what loadNew does.
C7_EmptyListLikeLoadNew == photos = <<>> => SameAsLoadNew

\* C7 amended: from every state with an empty photo list, an empty
\* pagination state and no search task running, loadNextPage does exactly
\* what loadNew does (same request or none, same state, same return).
C7_EmptyListLikeLoadNewWhenIdle ==
    (photos = <<>> /\ pagination = EmptyPagination /\ ~SearchIsRunning) => SameAsLoadNew

C7_Witness ==
    /\ photos = <<>>
    /\ pagination = EmptyPagination
    /\ ~SearchIsRunning
    /\ error # NoError
    /\ ENABLED (LoadNextPage /\ reqs' # reqs)

\* every loadNextPage step from the current state issues no request and
\* returns the rejection
ReportsExhaustion ==
    /\ ENABLED LoadNextPage
    /\ ~ ENABLED (LoadNextPage /\ ~(UNCHANGED progVars /\ ev' = "rejected"))

\* C8 as claimed: loadNextPage called without a "next" entry issues no
\* request and reports exhaustion.
C8_NoNextReportsExhaustion == pagination["next"] = Absent => ReportsExhaustion

\* C8 amended: loadNextPage called without a "next" entry, with a non-empty
\* photo list and no search task running, issues no request and reports
\* exhaustion.
C8_NoNextReportsExhaustionWhenLoaded ==
    (pagination["next"] = Absent /\ photos # <<>> /\ ~SearchIsRunning) => ReportsExhaustion

C8_Witness ==
    /\ ev = "rejected"
    /\ photos # <<>>
    /\ pagination["next"] = Absent

\* C9: while the search task is running (timeout pending or request on the
\* wire), loadNextPage issues no request, changes nothing and returns nothing.
C9_NoOpDuringSearch ==
    SearchIsRunning =>
        /\ ENABLED LoadNextPage
        /\ ~ ENABLED (LoadNextPage /\ ~(UNCHANGED progVars /\ ev' = ""))

C9_Witness ==
    /\ SearchIsRunning
    /\ photos # <<>>
    /\ pagination["next"] # Absent
    /\ loadingTask = "idle"

\* C10: a failed data request is never thrown to the caller: the chain ends
\* fulfilled without a value, and the error string is set by then.
C10_FailureSwallowed ==
    /\ ev # "thrown"
    /\ ev = "swallowed" => error # NoError

C10_Witness ==
    /\ ev = "swallowed"
    /\ error = ConnectionMsg
    /\ search = IdleSearch
    /\ searchTerm # ""

\* the height a photo adds to its column: 300 times height over width
PhotoHeight(photo) == (300 * photo.height) \div photo.width

\* the columns of the current column set
ColumnIndexes == 1..Len(columnHeights)

\* C11: after every addition by the balancing rule to a column set that
\* started empty, the tallest and the shortest column differ by no more
\* than the height of the largest photo added so far.
C11_SpreadBounded ==
    IF photos = <<>>
    THEN \A i \in ColumnIndexes : columnHeights[i] = 0
    ELSE \E k \in 1..Len(photos) :
            /\ \A m \in 1..Len(photos) : PhotoHeight(photos[m]) <= PhotoHeight(photos[k])
            /\ \A i, j \in ColumnIndexes :
                  columnHeights[i] - columnHeights[j] <= PhotoHeight(photos[k])

C11_Witness ==
    /\ Len(photos) >= 4
    /\ columnCount = 3
    /\ \E k \in 1..Len(photos), i, j \in ColumnIndexes :
          /\ columnHeights[i] - columnHeights[j] = PhotoHeight(photos[k])
          /\ \E m \in 1..Len(photos) : PhotoHeight(photos[m]) < PhotoHeight(photos[k])

\* the balancing rule: the column of least height, the lowest index among equals
LeastLoaded(heights) ==
    CHOOSE i \in 1..Len(heights) :
        /\ \A j \in 1..Len(heights) : heights[i] <= heights[j]
        /\ \A j \in 1..(i - 1) : heights[j] > heights[i]

\* an empty column set of n columns
EmptyLayout(n) == [heights |-> [i \in 1..n |-> 0], columns |-> [i \in 1..n |-> <<>>]]

\* the photos ps added one by one, in order, to a column set by the balancing rule
RECURSIVE Balanced(_, _)
Balanced(layout, ps) ==
    IF ps = <<>> THEN layout
    ELSE LET i == LeastLoaded(layout.heights)
         IN Balanced([heights |-> [layout.heights EXCEPT ![i] = @ + PhotoHeight(Head(ps))],
                      columns |-> [layout.columns EXCEPT ![i] = Append(@, Head(ps))]],
                     Tail(ps))

\* the number of photos over all columns
RECURSIVE TotalPhotos(_)
TotalPhotos(cols) == IF cols = <<>> THEN 0 ELSE Len(Head(cols)) + TotalPhotos(Tail(cols))

\* C12: changeColumnCount(n) with n >= 1 different from the current count
\* leaves the flat list alone and produces the column set and heights of
\* adding the photos of the list, in order, to an empty column set of n
\* columns, which holds as many photos as the list; with n the current
\* count it changes nothing.
C12_Redistributes ==
    [][\A n \in 1..MaxColumns :
          ChangeColumnCount(n) =>
              IF n # columnCount
              THEN /\ photos' = photos
                   /\ columnCount' = n
                   /\ TotalPhotos(columns') = Len(photos')
                   /\ columns' = Balanced(EmptyLayout(n), photos).columns
                   /\ columnHeights' = Balanced(EmptyLayout(n), photos).heights
              ELSE UNCHANGED progVars]_vars

C12_Witness ==
    /\ columnCount = 2
    /\ Len(photos) >= 3
    /\ columns = Balanced(EmptyLayout(2), photos).columns
    /\ Len(columns[2]) > Len(columns[1])
    /\ ENABLED (ChangeColumnCount(3) /\ Len(columns'[3]) > 0)

\* this step puts a request on the wire in slot i
IssuedIn(i) == reqs[i] = NoReq /\ reqs'[i] # NoReq

\* C13: the remembered retry URL is the URL of the request issued last
\* through _makeRequest (every such request stores its URL, and nothing
\* else, its success and its failure included, changes what is stored),
\* and a retry that is admitted issues a request for exactly that URL.
C13_RetryUrlRemembered ==
    [][/\ \A i \in Slots :
             (IssuedIn(i) /\ reqs'[i].owner # "test") => lastRequestUrl' = reqs'[i].url
       /\ lastRequestUrl' # lastRequestUrl =>
             \E i \in Slots : IssuedIn(i) /\ reqs'[i].owner # "test"
       /\ (RetryLastRequest /\ reqs' # reqs) =>
             \E i \in Slots :
                 /\ IssuedIn(i)
                 /\ reqs'[i].url = lastRequestUrl
                 /\ \A j \in Slots \ {i} : reqs'[j] = reqs[j]]_vars

C13_Witness ==
    /\ loadingTask = "_retryLastRequest"
    /\ lastRequestUrl \in PageUrls
    /\ photos # <<>>
    /\ \E i \in Slots : reqs[i].owner = "_loadingTasks" /\ reqs[i].url = lastRequestUrl

\* C14: updateSearch with the current search term is a no-op in every
\* reachable state: no request, no reset of photo list, column set and
\* pagination state, the search task neither cancelled nor restarted.
C14_SameTermNoOp ==
    \A term \in Terms \cup {""} :
        term = searchTerm =>
            /\ ENABLED UpdateSearch(term)
            /\ ~ ENABLED (UpdateSearch(term) /\ ~(UNCHANGED progVars /\ ev' = ""))

C14_Witness ==
    /\ search.state = "waiting"
    /\ searchTerm = search.term
    /\ photos # <<>>
    /\ pagination["next"] # Absent
    /\ ENABLED (UpdateSearch(searchTerm) /\ search' = search)

\* how often photo p occurs in the sequence s
Occurrences(s, p) == Cardinality({k \in 1..Len(s) : s[k] = p})

\* the photos of all columns, one column after the other
RECURSIVE AllColumns(_)
AllColumns(cols) == IF cols = <<>> THEN <<>> ELSE Head(cols) \o AllColumns(Tail(cols))

\* the sum of the heights the photos of one column add
RECURSIVE ColumnSum(_)
ColumnSum(col) == IF col = <<>> THEN 0 ELSE PhotoHeight(Head(col)) + ColumnSum(Tail(col))

\* C15: in every reachable state the columns together hold the photos of
\* the flat list, none missing and none twice, each recorded column height
\* is the sum of 300 * ratio over the column's members, and each photo sits
\* where the balancing rule (least height, lowest index among equals) put
\* it when it was added.
C15_ColumnsMirrorList ==
    /\ Len(columns) = columnCount
    /\ Len(columnHeights) = columnCount
    /\ Len(AllColumns(columns)) = Len(photos)
    /\ \A k \in 1..Len(photos) :
          Occurrences(AllColumns(columns), photos[k]) = Occurrences(photos, photos[k])
    /\ \A i \in 1..columnCount : columnHeights[i] = ColumnSum(columns[i])
    /\ columns = Balanced(EmptyLayout(columnCount), photos).columns

C15_Witness ==
    /\ columnCount = 3
    /\ Len(photos) = 4
    /\ Len(columns[2]) = 2
    /\ columnHeights[1] > columnHeights[2]
    /\ columnHeights[2] > columnHeights[3]

\* every entry of the Link header has the form <url>; rel="name"
WellFormed(link) == \A k \in 1..Len(link) : link[k].ok

\* the rel -> URL entries of a Link header, the last entry of a rel winning
LinkMapping(link) ==
    [r \in Rels |->
        IF \E k \in 1..Len(link) : link[k].ok /\ link[k].rel = r
        THEN LET last == CHOOSE k \in 1..Len(link) :
                            /\ link[k].ok /\ link[k].rel = r
                            /\ \A m \in (k + 1)..Len(link) : ~(link[m].ok /\ link[m].rel = r)
             IN link[last].url
        ELSE Absent]

\* the chain of data request i ends in this step
Completes(i) == reqs[i].owner \notin {"none", "test"} /\ reqs'[i] = NoReq

\* C16 as claimed: whenever the response to a data request arrives, with
\* whatever status, the pagination state becomes exactly the entries of its
\* Link header.
C16_PaginationReplaced ==
    [][\A i \in Slots, h \in Heads :
          (reqs[i].owner # "test" /\ WellFormed(h.link)
              /\ RespHead(i, h.status, h.ctype, h.rl, h.link))
              => pagination' = LinkMapping(h.link)]_vars

\* C16 amended: a 2xx response with a well-formed (or no) Link header
\* makes the pagination state exactly the entries of that header; any
\* other response, and the rest of the chain (reading the body, the
\* failure of the fetch), leave the pagination state as it was.
C16_PaginationReplacedOnSuccess ==
    [][\A i \in Slots :
          /\ \A h \in Heads :
                (reqs[i].owner # "test" /\ RespHead(i, h.status, h.ctype, h.rl, h.link))
                    => IF h.status >= 200 /\ h.status < 300 /\ WellFormed(h.link)
                       THEN pagination' = LinkMapping(h.link)
                       ELSE pagination' = pagination
          /\ (reqs[i].phase # "fetch" /\ Completes(i)) => pagination' = pagination
          /\ FetchFail(i) => pagination' = pagination]_vars

C16_Witness ==
    /\ loadingTask = "_loadNextPage"
    /\ pagination = EmptyPagination
    /\ photos # <<>>
    /\ \E i \in Slots : reqs[i].phase = "json" /\ reqs[i].url \in PageUrls

\* the messages _checkStatus derives from a response
ResponseMessages == {RateLimitMsg, BodyMsg} \cup {StatusMsg(status) : status \in Statuses}

\* C17: when the chain of a data request ends on something the server sent
\* (a response of any status, with any headers and body), the error string
\* is empty or one of the messages derived from the response, never the
\* connectivity message.
C17_ConnectivityOnlyWithoutResponse ==
    [][\A i \in Slots :
          (reqs[i].owner # "test" /\ Respond(i) /\ reqs'[i] = NoReq)
              => error' \in {NoError} \cup ResponseMessages]_vars

\* C18: every photo of the list comes from a request issued after the
\* latest reset: from the search for the current term when the term is not
\* empty, from the default listing or its pages when it is.
C18_NoStalePhotos == \A k \in 1..Len(photos) : photos[k].query = searchTerm

\* the data requests whose response can still arrive
DataRequests == {i \in Slots : reqs[i].owner \in {"_loadingTasks", "_search"}}

\* C19: while a data request is outstanding, isLoading is true.
C19_LoadingWhileOutstanding == DataRequests # {} => IsLoading

\* an operation invoked by the user of the service
UserOperation ==
    \/ LoadNew
    \/ LoadNextPage
    \/ \E term \in {"a", ""} : UpdateSearch(term)
    \/ RetryLastRequest

\* no task is running, and a retry performed now is admitted
SlotsFree ==
    /\ ~IsLoading
    /\ ENABLED (RetryLastRequest /\ loadingTask' = "_retryLastRequest" /\ reqs' # reqs)

\* C20: when every request is answered or fails and the operations stop
\* being invoked, every admitted request finishes and releases its slot,
\* whether it succeeded or failed: from some point on isLoading is false
\* and a load-family operation invoked then is admitted.
C20_SlotsReleased == []<><<UserOperation>>_vars \/ <>[]SlotsFree

C20_Witness ==
    /\ SlotsFree
    /\ ev = "swallowed"
    /\ error # NoError
    /\ lastRequestUrl \in PageUrls
    /\ \A i \in Slots : reqs[i] = NoReq

=============================================================================
